---- MODULE Spec2Model ----
(***************************************************************************)
(* Model of src/tiling/main.cc: class Demo (construction, render_and_step, *)
(* render, draw_grid) and the frame loop of main that drives it.           *)
(*                                                                         *)
(* Numbers.  Phases and the scene clock are kept as exact numerators over  *)
(* the common denominator PhaseDen = 2 * RAND_MAX, so that                 *)
(*   2.5 * rand() / RAND_MAX  =  (5 * rand()) / PhaseDen.                  *)
(* Heights are numerators over 2000 (std::sin is tabulated in 1/1000).     *)
(* Tile coordinates are exact: x in units of cos(30 deg), y in units of    *)
(* 1/2.                                                                    *)
(***************************************************************************)
EXTENDS Integers, Sequences, FiniteSets, TLC

\* ---------------------------------------------------------------- constants

GridRows == 12
GridColumns == 12
ShadowWidth == 2048
ShadowHeight == ShadowWidth
window_width == 800
window_height == 800

\* <cstdlib>: the largest value std::rand() returns (the smallest value the
\* C standard allows an implementation to choose).
RAND_MAX == 32767

\* Denominator of phases and of clock values.
PhaseDen == 2 * RAND_MAX

\* The main loop runs until the window is closed; the model closes it after
\* at most MaxFrames frames.
MaxFrames == 2

\* Frame deltas the frame loop may supply (numerators over PhaseDen):
\* 0, 1/60 s (rounded), 1 s.
DtSet == {0, 1092, PhaseDen}

\* std::rand() is never seeded by the program; its algorithm is
\* implementation-defined.  The generator states the model starts from.
Seeds == {1, 15134}

NumHexagons == GridRows * GridColumns
NumDiamonds == (GridRows - 1) * (GridColumns - 1)
NumTiles == NumHexagons + NumDiamonds

\* Value of a float array element that was never assigned.
Uninit == -1

\* ------------------------------------------------------------------ geometry

\* Local outlines, <<x / cos30, 2 * y>>.
hexagon_verts == << <<1, 1>>, <<0, 2>>, <<-1, 1>>, <<-1, -1>>, <<0, -2>>, <<1, -1>> >>
diamond_verts == << <<1, 0>>, <<0, 1>>, <<-1, 0>>, <<0, -1>> >>

\* Translation of hexagon slot (i, j): x = 2 cos30 (j - 0.5 (GridColumns - 1)),
\* y = 2 (i - 0.5 (GridRows - 1)); returned as <<x / cos30, 2 * y>>.
HexagonOffset(i, j) ==
    << 2 * j - (GridColumns - 1), 2 * (2 * i - (GridRows - 1)) >>

\* Translation of diamond slot (i, j): x = 2 cos30 (j - 0.5 (GridColumns - 2)),
\* y = 2 (i - 0.5 (GridRows - 2)).
\* Variant: the diamond grid centred with the hexagon grid's formula.
DiamondOffset_Shifted(i, j) ==
    << 2 * j - (GridColumns - 1), 2 * (2 * i - (GridRows - 1)) >>

DiamondOffset(i, j) ==
    << 2 * j - (GridColumns - 2), 2 * (2 * i - (GridRows - 2)) >>

\* The closed line loop of verts placed at offset off, as a set of edges
\* (an edge is the set of its two end points).
PlacedEdges(verts, off) ==
    { { << verts[k][1] + off[1], verts[k][2] + off[2] >>,
        << verts[(k % Len(verts)) + 1][1] + off[1],
           verts[(k % Len(verts)) + 1][2] + off[2] >> } : k \in 1..Len(verts) }

\* ------------------------------------------------------------- height field

\* std::rand(): the next generator state, which is also the value returned,
\* in 0..RAND_MAX.
Rand(s) == (s * 20077 + 12345) % (RAND_MAX + 1)

\* 2.5 * static_cast<float>(r) / RAND_MAX, as a numerator over PhaseDen.
\* Variant: the draw taken from 1..RAND_MAX+1.
Phase_OffByOne(r) == 5 * (r + 1)

Phase(r) == 5 * r

\* 2 * pi in units of 1 / PhaseDen.
TwoPi == 411762

\* sin at multiples of 15 degrees, in 1/1000.
SinTable ==
    << 0, 259, 500, 707, 866, 966, 1000, 966, 866, 707, 500, 259,
       0, -259, -500, -707, -866, -966, -1000, -966, -866, -707, -500, -259 >>

\* std::sin(a), a over PhaseDen, in 1/1000.
Sin(a) == SinTable[(((a % TwoPi) * 24) \div TwoPi) + 1]

\* 2.5f * (1.0f + std::sin(t + p)), as a numerator over 2000.
\* Variant: the sine scaled by 2 before the offset.
Height_DoubleAmplitude(t, p) == 5 * (1000 + 2 * Sin(t + p))

Height(t, p) == 5 * (1000 + Sin(t + p))

\* --------------------------------------------------------------------- state

VARIABLES
    pc,                 \* position of the single thread
    i, j,               \* loop counters of the loop being executed
    call,               \* which draw_grid call of render is active
    rand_next,          \* state of std::rand()
    rand_calls,         \* number of std::rand() calls made so far
    hex_writes,         \* number of assignments to each hexagon_heights_ slot
    dia_writes,         \* number of assignments to each diamond_heights_ slot
    hexagon_heights_,
    diamond_heights_,
    cur_time_,
    dt,                 \* argument of the active render_and_step call
    dts,                \* the dt of every completed render_and_step call
    enabled,            \* GL capabilities
    viewport,
    framebuffer,        \* "default" or "shadow" (shadow_buffer_ bound)
    texture,            \* texture bound to unit 0
    bound_program,      \* program made current by shader_program::bind
    bound_geometry,     \* geometry made current by geometry::bind
    uniforms,           \* per program, the uniforms it has received
    ops,                \* GL operations of the current frame, in order
    draws,              \* glDrawArrays calls of the current frame, in order
    prev_draws          \* glDrawArrays calls of the frame before

vars == << pc, i, j, call, rand_next, rand_calls, hex_writes, dia_writes,
           hexagon_heights_, diamond_heights_, cur_time_, dt, dts, enabled,
           viewport, framebuffer, texture, bound_program, bound_geometry,
           uniforms, ops, draws, prev_draws >>

heights_vars == << rand_next, rand_calls, hex_writes, dia_writes,
                   hexagon_heights_, diamond_heights_ >>

gl_vars == << enabled, viewport, framebuffer, texture, bound_program,
              bound_geometry, uniforms >>

log_vars == << ops, draws, prev_draws >>

\* A GridRows x GridColumns array and a (GridRows-1) x (GridColumns-1) array
\* holding v in every element.
HexArray(v) == [r \in 0..(GridRows - 1) |-> [c \in 0..(GridColumns - 1) |-> v]]
DiaArray(v) == [r \in 0..(GridRows - 2) |-> [c \in 0..(GridColumns - 2) |-> v]]

NoUniforms ==
    [ viewProjectionMatrix |-> "unset", modelMatrix |-> <<>>, height |-> Uninit,
      lightPosition |-> "unset", color |-> "unset",
      lightViewProjection |-> "unset", shadowMapTexture |-> Uninit ]

\* State at the start of Demo's constructor body, after initialize_shader
\* and initialize_geometry: a fresh GL context (every capability used here
\* is initially disabled except GL_MULTISAMPLE), linked programs without
\* uniforms, unassigned height arrays, cur_time_ = 0.
InitWith(seeds) ==
    /\ pc = "init_hexagons"
    /\ i = 0
    /\ j = 0
    /\ call = "none"
    /\ rand_next \in seeds
    /\ rand_calls = 0
    /\ hex_writes = HexArray(0)
    /\ dia_writes = DiaArray(0)
    /\ hexagon_heights_ = HexArray(Uninit)
    /\ diamond_heights_ = DiaArray(Uninit)
    /\ cur_time_ = 0
    /\ dt = 0
    /\ dts = <<>>
    /\ enabled = [ GL_BLEND |-> FALSE, GL_CULL_FACE |-> FALSE,
                   GL_MULTISAMPLE |-> TRUE, GL_POLYGON_OFFSET_FILL |-> FALSE,
                   GL_DEPTH_TEST |-> FALSE ]
    /\ viewport = << window_width, window_height >>
    /\ framebuffer = "default"
    /\ texture = "none"
    /\ bound_program = "none"
    /\ bound_geometry = "none"
    /\ uniforms = [ p \in {"program_", "shadow_program_"} |-> NoUniforms ]
    /\ ops = <<>>
    /\ draws = <<>>
    /\ prev_draws = <<>>

Init == InitWith(Seeds)

\* ------------------------------------------------------------- construction

\* One iteration of the first loop nest of initialize_heights.
InitHexagonHeight ==
    /\ pc = "init_hexagons"
    /\ rand_next' = Rand(rand_next)
    /\ rand_calls' = rand_calls + 1
    /\ hexagon_heights_' = [hexagon_heights_ EXCEPT ![i][j] = Phase(rand_next')]
    /\ hex_writes' = [hex_writes EXCEPT ![i][j] = @ + 1]
    /\ IF j + 1 < GridColumns
         THEN /\ j' = j + 1
              /\ UNCHANGED << i, pc >>
         ELSE IF i + 1 < GridRows
                THEN /\ i' = i + 1
                     /\ j' = 0
                     /\ UNCHANGED pc
                ELSE /\ i' = 0
                     /\ j' = 0
                     /\ pc' = "init_diamonds"
    /\ UNCHANGED << call, dia_writes, diamond_heights_, cur_time_, dt, dts,
                    gl_vars, log_vars >>

\* Variant: the second loop nest assigns hexagon_heights_ again.
InitDiamondHeight_WrongArray ==
    /\ pc = "init_diamonds"
    /\ rand_next' = Rand(rand_next)
    /\ rand_calls' = rand_calls + 1
    /\ hexagon_heights_' = [hexagon_heights_ EXCEPT ![i][j] = Phase(rand_next')]
    /\ hex_writes' = [hex_writes EXCEPT ![i][j] = @ + 1]
    /\ IF j + 1 < GridColumns - 1
         THEN /\ j' = j + 1
              /\ UNCHANGED << i, pc >>
         ELSE IF i + 1 < GridRows - 1
                THEN /\ i' = i + 1
                     /\ j' = 0
                     /\ UNCHANGED pc
                ELSE /\ i' = 0
                     /\ j' = 0
                     /\ pc' = "loop"
    /\ UNCHANGED << call, dia_writes, diamond_heights_, cur_time_, dt, dts,
                    gl_vars, log_vars >>

\* One iteration of the second loop nest of initialize_heights; the last
\* one returns from the constructor into the frame loop.
InitDiamondHeight ==
    /\ pc = "init_diamonds"
    /\ rand_next' = Rand(rand_next)
    /\ rand_calls' = rand_calls + 1
    /\ diamond_heights_' = [diamond_heights_ EXCEPT ![i][j] = Phase(rand_next')]
    /\ dia_writes' = [dia_writes EXCEPT ![i][j] = @ + 1]
    /\ IF j + 1 < GridColumns - 1
         THEN /\ j' = j + 1
              /\ UNCHANGED << i, pc >>
         ELSE IF i + 1 < GridRows - 1
                THEN /\ i' = i + 1
                     /\ j' = 0
                     /\ UNCHANGED pc
                ELSE /\ i' = 0
                     /\ j' = 0
                     /\ pc' = "loop"
    /\ UNCHANGED << call, hex_writes, hexagon_heights_, cur_time_, dt, dts,
                    gl_vars, log_vars >>

\* ---------------------------------------------------------------- frame loop

Op(name) == [op |-> name, call |-> call]

\* main: while (!glfwWindowShouldClose(w)) d.render_and_step(dt).
CallRenderAndStep ==
    /\ pc = "loop"
    /\ Len(dts) < MaxFrames
    /\ dt' \in DtSet
    /\ pc' = "render"
    /\ prev_draws' = draws
    /\ draws' = <<>>
    /\ ops' = <<>>
    /\ UNCHANGED << i, j, call, heights_vars, cur_time_, dts, gl_vars >>

\* render, up to the "shadow" comment.
RenderBegin ==
    /\ pc = "render"
    /\ enabled' = [enabled EXCEPT !.GL_BLEND = FALSE, !.GL_CULL_FACE = FALSE,
                                  !.GL_MULTISAMPLE = TRUE]
    /\ ops' = ops \o << Op("glDisable(GL_BLEND)"), Op("glDisable(GL_CULL_FACE)"),
                        Op("glEnable(GL_MULTISAMPLE)") >>
    /\ pc' = "shadow"
    /\ UNCHANGED << i, j, call, heights_vars, cur_time_, dt, dts, viewport,
                    framebuffer, texture, bound_program, bound_geometry,
                    uniforms, draws, prev_draws >>

\* render, the shadow pass up to its draw_grid call.
ShadowBegin ==
    /\ pc = "shadow"
    /\ viewport' = << ShadowWidth, ShadowHeight >>
    /\ framebuffer' = "shadow"
    /\ bound_program' = "shadow_program_"
    /\ uniforms' = [uniforms EXCEPT
                      !["shadow_program_"].viewProjectionMatrix = "light"]
    /\ enabled' = [enabled EXCEPT !.GL_POLYGON_OFFSET_FILL = TRUE]
    /\ ops' = ops \o << Op("glViewport(shadow)"), Op("shadow_buffer_.bind"),
                        Op("glClear(DEPTH)"), Op("shadow_program_.bind"),
                        Op("glEnable(GL_POLYGON_OFFSET_FILL)") >>
    /\ call' = "shadow"
    /\ pc' = "bind_hexagon"
    /\ UNCHANGED << i, j, heights_vars, cur_time_, dt, dts, texture,
                    bound_geometry, draws, prev_draws >>

\* render, from the end of the shadow pass's draw_grid to the "render" comment.
\* Variant: GL_POLYGON_OFFSET_FILL left enabled.
ShadowEnd_KeepOffset ==
    /\ pc = "shadow_end"
    /\ framebuffer' = "default"
    /\ ops' = ops \o << Op("shadow_buffer_.unbind") >>
    /\ pc' = "color"
    /\ UNCHANGED << i, j, call, heights_vars, cur_time_, dt, dts, viewport, texture,
                    enabled, bound_program, bound_geometry, uniforms, draws,
                    prev_draws >>

\* Variant: the shadow target left bound.
ShadowEnd_NoUnbind ==
    /\ pc = "shadow_end"
    /\ enabled' = [enabled EXCEPT !.GL_POLYGON_OFFSET_FILL = FALSE]
    /\ ops' = ops \o << Op("glDisable(GL_POLYGON_OFFSET_FILL)") >>
    /\ pc' = "color"
    /\ UNCHANGED << i, j, call, heights_vars, cur_time_, dt, dts, viewport, texture,
                    framebuffer, bound_program, bound_geometry, uniforms, draws,
                    prev_draws >>

\* Variant: the clock advanced between the two passes.
ShadowEnd_AdvanceClock ==
    /\ pc = "shadow_end"
    /\ enabled' = [enabled EXCEPT !.GL_POLYGON_OFFSET_FILL = FALSE]
    /\ framebuffer' = "default"
    /\ ops' = ops \o << Op("glDisable(GL_POLYGON_OFFSET_FILL)"),
                        Op("shadow_buffer_.unbind") >>
    /\ pc' = "color"
    /\ cur_time_' = cur_time_ + dt
    /\ UNCHANGED << i, j, call, heights_vars, dt, dts, viewport, texture,
                    bound_program, bound_geometry, uniforms, draws, prev_draws >>

ShadowEnd ==
    /\ pc = "shadow_end"
    /\ enabled' = [enabled EXCEPT !.GL_POLYGON_OFFSET_FILL = FALSE]
    /\ framebuffer' = "default"
    /\ ops' = ops \o << Op("glDisable(GL_POLYGON_OFFSET_FILL)"),
                        Op("shadow_buffer_.unbind") >>
    /\ pc' = "color"
    /\ UNCHANGED << i, j, call, heights_vars, cur_time_, dt, dts, viewport, texture,
                    bound_program, bound_geometry, uniforms, draws, prev_draws >>

\* render, the color pass up to its draw_grid call.
ColorBegin ==
    /\ pc = "color"
    /\ viewport' = << window_width, window_height >>
    /\ enabled' = [enabled EXCEPT !.GL_DEPTH_TEST = TRUE]
    /\ texture' = "shadow"
    /\ bound_program' = "program_"
    /\ uniforms' = [uniforms EXCEPT
                      !["program_"].viewProjectionMatrix = "camera",
                      !["program_"].lightPosition = "light_position",
                      !["program_"].color = "white",
                      !["program_"].lightViewProjection = "light",
                      !["program_"].shadowMapTexture = 0]
    /\ call' = "color"
    /\ ops' = ops \o << [op |-> "glViewport(window)", call |-> "color"],
                        [op |-> "glClear(COLOR|DEPTH)", call |-> "color"],
                        [op |-> "glEnable(GL_DEPTH_TEST)", call |-> "color"],
                        [op |-> "shadow_buffer_.bind_texture", call |-> "color"],
                        [op |-> "program_.bind", call |-> "color"] >>
    /\ pc' = "bind_hexagon"
    /\ UNCHANGED << i, j, heights_vars, cur_time_, dt, dts, framebuffer,
                    bound_geometry, draws, prev_draws >>

\* render_and_step: cur_time_ += dt, and return to the frame loop.
\* Variant: the clock advanced by dt twice.
Step_Twice ==
    /\ pc = "step"
    /\ cur_time_' = cur_time_ + dt + dt
    /\ dts' = Append(dts, dt)
    /\ pc' = "loop"
    /\ UNCHANGED << i, j, call, heights_vars, dt, gl_vars, log_vars >>

Step ==
    /\ pc = "step"
    /\ cur_time_' = cur_time_ + dt
    /\ dts' = Append(dts, dt)
    /\ pc' = "loop"
    /\ UNCHANGED << i, j, call, heights_vars, dt, gl_vars, log_vars >>

\* ----------------------------------------------------------------- draw_grid

\* The record of one glDrawArrays(GL_LINE_LOOP, 0, count) call of the tile
\* at slot with translation off and height h, whose uniforms went to
\* program target; u is the uniform state after they were set.
Draw(count, slot, off, h, target, u) ==
    [ call |-> call, geometry |-> bound_geometry, count |-> count,
      slot |-> slot, offset |-> off, height |-> h, time |-> cur_time_,
      program |-> bound_program, uniform_program |-> target,
      bound_modelMatrix |-> IF bound_program = "none" THEN <<>>
                            ELSE u[bound_program].modelMatrix,
      bound_height |-> IF bound_program = "none" THEN Uninit
                       ELSE u[bound_program].height,
      polygon_offset_fill |-> enabled.GL_POLYGON_OFFSET_FILL,
      depth_test |-> enabled.GL_DEPTH_TEST,
      framebuffer |-> framebuffer ]

\* draw_grid: hexagon_.bind().
BindHexagon ==
    /\ pc = "bind_hexagon"
    /\ bound_geometry' = "hexagon_"
    /\ ops' = Append(ops, Op("hexagon_.bind"))
    /\ i' = 0
    /\ j' = 0
    /\ pc' = "hexagons"
    /\ UNCHANGED << call, heights_vars, cur_time_, dt, dts, enabled, viewport,
                    framebuffer, texture, bound_program, uniforms, draws,
                    prev_draws >>

\* draw_grid: one iteration of the hexagon loop nest.  The uniforms are set
\* on the member program_, not on the parameter program.
DrawHexagon ==
    /\ pc = "hexagons"
    /\ LET off == HexagonOffset(i, j)
           h == Height(cur_time_, hexagon_heights_[i][j])
           u == [uniforms EXCEPT !["program_"].modelMatrix = off,
                                 !["program_"].height = h]
       IN /\ uniforms' = u
          /\ draws' = Append(draws, Draw(6, <<i, j>>, off, h, "program_", u))
    /\ ops' = Append(ops, Op("glDrawArrays"))
    /\ IF j + 1 < GridColumns
         THEN /\ j' = j + 1
              /\ UNCHANGED << i, pc >>
         ELSE IF i + 1 < GridRows
                THEN /\ i' = i + 1
                     /\ j' = 0
                     /\ UNCHANGED pc
                ELSE /\ i' = 0
                     /\ j' = 0
                     /\ pc' = "bind_diamond"
    /\ UNCHANGED << call, heights_vars, cur_time_, dt, dts, enabled, viewport,
                    framebuffer, texture, bound_program, bound_geometry,
                    prev_draws >>

\* draw_grid: diamond_.bind().
BindDiamond ==
    /\ pc = "bind_diamond"
    /\ bound_geometry' = "diamond_"
    /\ ops' = Append(ops, Op("diamond_.bind"))
    /\ i' = 0
    /\ j' = 0
    /\ pc' = "diamonds"
    /\ UNCHANGED << call, heights_vars, cur_time_, dt, dts, enabled, viewport,
                    framebuffer, texture, bound_program, uniforms, draws,
                    prev_draws >>

\* draw_grid: one iteration of the diamond loop nest; the last one returns
\* to the caller.
DrawDiamond ==
    /\ pc = "diamonds"
    /\ LET off == DiamondOffset(i, j)
           h == Height(cur_time_, diamond_heights_[i][j])
           u == [uniforms EXCEPT !["program_"].modelMatrix = off,
                                 !["program_"].height = h]
       IN /\ uniforms' = u
          /\ draws' = Append(draws, Draw(4, <<i, j>>, off, h, "program_", u))
    /\ ops' = Append(ops, Op("glDrawArrays"))
    /\ IF j + 1 < GridColumns - 1
         THEN /\ j' = j + 1
              /\ UNCHANGED << i, pc, call >>
         ELSE IF i + 1 < GridRows - 1
                THEN /\ i' = i + 1
                     /\ j' = 0
                     /\ UNCHANGED << pc, call >>
                ELSE /\ i' = 0
                     /\ j' = 0
                     /\ pc' = IF call = "shadow" THEN "shadow_end" ELSE "step"
                     /\ call' = "none"
    /\ UNCHANGED << heights_vars, cur_time_, dt, dts, enabled, viewport,
                    framebuffer, texture, bound_program, bound_geometry,
                    prev_draws >>

\* ------------------------------------------------------------- specification

Next ==
    \/ InitHexagonHeight
    \/ InitDiamondHeight
    \/ CallRenderAndStep
    \/ RenderBegin
    \/ ShadowBegin
    \/ BindHexagon
    \/ DrawHexagon
    \/ BindDiamond
    \/ DrawDiamond
    \/ ShadowEnd
    \/ ColorBegin
    \/ Step

Spec == Init /\ [][Next]_vars

\* The phase conversion over every value std::rand() can return: the first
\* draw of initialize_heights from every generator state.
InitAnySeed == InitWith(0..RAND_MAX)

FirstDraw ==
    /\ rand_calls = 0
    /\ InitHexagonHeight

SpecRand == InitAnySeed /\ [][FirstDraw]_vars

\* The height function over sampled clock values and phases: the first
\* tile drawn by the shadow pass of a frame whose clock is t, when the
\* generator returned r for every slot.
MaxTimeSteps == 200
TimeSamples == { k * 4289 : k \in 0..MaxTimeSteps }
RandSamples == {0, 1, 16384, RAND_MAX - 1, RAND_MAX}

InitHeight ==
    /\ pc = "hexagons"
    /\ i = 0
    /\ j = 0
    /\ call = "shadow"
    /\ rand_next = 1
    /\ rand_calls = NumTiles
    /\ hex_writes = HexArray(1)
    /\ dia_writes = DiaArray(1)
    /\ \E r \in RandSamples :
          /\ hexagon_heights_ = HexArray(Phase(r))
          /\ diamond_heights_ = DiaArray(Phase(r))
    /\ cur_time_ \in TimeSamples
    /\ dt = 0
    /\ dts = << cur_time_ >>
    /\ enabled = [ GL_BLEND |-> FALSE, GL_CULL_FACE |-> FALSE,
                   GL_MULTISAMPLE |-> TRUE, GL_POLYGON_OFFSET_FILL |-> TRUE,
                   GL_DEPTH_TEST |-> TRUE ]
    /\ viewport = << ShadowWidth, ShadowHeight >>
    /\ framebuffer = "shadow"
    /\ texture = "shadow"
    /\ bound_program = "shadow_program_"
    /\ bound_geometry = "hexagon_"
    /\ uniforms = [ p \in {"program_", "shadow_program_"} |-> NoUniforms ]
    /\ ops = <<>>
    /\ draws = <<>>
    /\ prev_draws = <<>>

FirstTile ==
    /\ Len(draws) = 0
    /\ DrawHexagon

SpecHeight == InitHeight /\ [][FirstTile]_vars

\* -------------------------------------------------------------------- claims

RECURSIVE Sum(_)
Sum(seq) == IF seq = <<>> THEN 0 ELSE seq[1] + Sum(Tail(seq))

OpIndexes(name) == { k \in 1..Len(ops) : ops[k].op = name }
DrawOps(c) == { k \in 1..Len(ops) : ops[k].op = "glDrawArrays" /\ ops[k].call = c }
ColorOps == { k \in 1..Len(ops) : ops[k].call = "color" }
Before(A, B) == \A a \in A : \A b \in B : a < b
RenderReturned == pc = "step"
InColorPass == ColorOps # {}

\* C1: in every frame the shadow pass runs first and in full: the shadow
\* target is bound once, all NumTiles shadow draws are issued while it is
\* bound, and it is unbound before the first color-pass operation (window
\* viewport, clear, bind_texture, color draws); when render returns each pass
\* has drawn every tile exactly once, and no color-pass draw is issued while
\* the shadow target is bound.
C1_ShadowPassFirst ==
    /\ InColorPass =>
          /\ Cardinality(OpIndexes("shadow_buffer_.bind")) = 1
          /\ Cardinality(OpIndexes("shadow_buffer_.unbind")) = 1
          /\ Cardinality(DrawOps("shadow")) = NumTiles
          /\ Before(OpIndexes("shadow_buffer_.bind"), DrawOps("shadow"))
          /\ Before(DrawOps("shadow"), OpIndexes("shadow_buffer_.unbind"))
          /\ Before(OpIndexes("shadow_buffer_.unbind"), ColorOps)
          /\ framebuffer = "default"
    /\ RenderReturned =>
          /\ Cardinality(DrawOps("shadow")) = NumTiles
          /\ Cardinality(DrawOps("color")) = NumTiles
          /\ Cardinality(OpIndexes("glViewport(window)")) = 1
          /\ Cardinality(OpIndexes("shadow_buffer_.bind_texture")) = 1
    /\ \A k \in 1..Len(draws) :
          /\ draws[k].call = "shadow" => draws[k].framebuffer = "shadow"
          /\ draws[k].call = "color" => draws[k].framebuffer = "default"

\* C1 witness: the second frame has run both passes in full.
C1_Witness ==
    /\ RenderReturned
    /\ Len(dts) = 1
    /\ Cardinality(DrawOps("shadow")) = NumTiles
    /\ Cardinality(DrawOps("color")) = NumTiles

\* C2: at every draw call the program that received the tile's modelMatrix
\* and height is the program currently bound, and that program holds the
\* tile's values.
C2_UniformsOnBoundProgram ==
    Len(draws) > 0 =>
        LET d == draws[Len(draws)]
        IN /\ d.uniform_program = d.program
           /\ d.bound_modelMatrix = d.offset
           /\ d.bound_height = d.height

\* The slot, buffer and vertex count of the k-th draw of a draw_grid call
\* in row-major order, hexagons first.
ExpectedTile(k) ==
    IF k <= NumHexagons
      THEN [ geometry |-> "hexagon_", count |-> 6,
             slot |-> << (k - 1) \div GridColumns, (k - 1) % GridColumns >> ]
      ELSE [ geometry |-> "diamond_", count |-> 4,
             slot |-> << (k - 1 - NumHexagons) \div (GridColumns - 1),
                         (k - 1 - NumHexagons) % (GridColumns - 1) >> ]

\* C3: both passes of a frame issue the same sequence of tile draws:
\* GridRows*GridColumns hexagons (row-major, 6 vertices, hexagon buffer), then
\* (GridRows-1)*(GridColumns-1) diamonds (row-major, 4 vertices, diamond
\* buffer); the k-th color draw has the slot, offset and height of the k-th
\* shadow draw.
C3_SameDrawsInBothPasses ==
    /\ Len(draws) <= 2 * NumTiles
    /\ RenderReturned => Len(draws) = 2 * NumTiles
    /\ \A n \in 1..Len(draws) :
          LET d == draws[n]
              k == ((n - 1) % NumTiles) + 1
              e == ExpectedTile(k)
          IN /\ d.geometry = e.geometry
             /\ d.count = e.count
             /\ d.slot = e.slot
             /\ d.call = IF n <= NumTiles THEN "shadow" ELSE "color"
             /\ n > NumTiles =>
                   /\ draws[n - NumTiles].slot = d.slot
                   /\ draws[n - NumTiles].offset = d.offset
                   /\ draws[n - NumTiles].height = d.height

\* C3 witness: a frame rendered at a non-zero clock has finished both passes.
C3_Witness ==
    /\ RenderReturned
    /\ cur_time_ > 0
    /\ Len(draws) = 2 * NumTiles
    /\ draws[2 * NumTiles].call = "color"

\* C4: GL_POLYGON_OFFSET_FILL is enabled at every shadow-pass draw, disabled
\* at every color-pass draw, and disabled whenever render has returned.
C4_PolygonOffsetShadowOnly ==
    /\ \A k \in 1..Len(draws) :
          draws[k].polygon_offset_fill = (draws[k].call = "shadow")
    /\ pc \in {"step", "loop"} => ~enabled.GL_POLYGON_OFFSET_FILL

\* C4 witness: render has returned after drawing both passes.
C4_Witness ==
    /\ RenderReturned
    /\ Len(draws) = 2 * NumTiles
    /\ draws[1].polygon_offset_fill
    /\ ~draws[2 * NumTiles].polygon_offset_fill
    /\ ~enabled.GL_POLYGON_OFFSET_FILL

AssignedPhases ==
    { hexagon_heights_[r][c] : r \in 0..(GridRows - 1), c \in 0..(GridColumns - 1) }
      \cup
    { diamond_heights_[r][c] : r \in 0..(GridRows - 2), c \in 0..(GridColumns - 2) }

\* C5 (as claimed): every assigned phase lies in the half-open interval
\* [0, 2.5).
C5_PhaseHalfOpen ==
    \A p \in AssignedPhases \ {Uninit} : 0 <= p /\ 2 * p < 5 * PhaseDen

\* C5 (amended): every assigned phase lies in the closed interval [0, 2.5].
C5_PhaseClosed ==
    \A p \in AssignedPhases \ {Uninit} : 0 <= p /\ 2 * p <= 5 * PhaseDen

\* C5 witness: a slot was assigned the phase 2.5.
C5_Witness ==
    /\ rand_calls = 1
    /\ 2 * hexagon_heights_[0][0] = 5 * PhaseDen

Constructed == pc \notin {"init_hexagons", "init_diamonds"}

\* C6: once construction is over, every hexagon and diamond slot has been
\* assigned exactly once with one std::rand() call per slot, and no step of
\* any later render_and_step call changes a phase.
C6_PhasesAssignedOnce ==
    /\ [](Constructed =>
            /\ rand_calls = NumTiles
            /\ hex_writes = HexArray(1)
            /\ dia_writes = DiaArray(1)
            /\ Uninit \notin AssignedPhases)
    /\ [][Constructed =>
            /\ hexagon_heights_' = hexagon_heights_
            /\ diamond_heights_' = diamond_heights_
            /\ rand_calls' = rand_calls]_vars

\* C6 witness: two frames were rendered after construction.
C6_Witness ==
    /\ RenderReturned
    /\ Len(dts) = 1
    /\ rand_calls = NumTiles
    /\ Uninit \notin AssignedPhases

\* C7: the clock starts at 0 and is the sum of the dt of the completed
\* calls; it changes only in the step after render, by exactly dt, and
\* never decreases; every draw of a frame (both passes) uses that sum; a
\* frame that follows a step with dt = 0 draws every tile with the height
\* of the frame before.
C7_Clock ==
    /\ [](/\ cur_time_ = Sum(dts)
          /\ Len(dts) = 0 => cur_time_ = 0
          /\ pc # "loop" => \A k \in 1..Len(draws) : draws[k].time = Sum(dts)
          /\ (pc # "loop" /\ Len(dts) > 0 /\ dts[Len(dts)] = 0) =>
                \A k \in 1..Len(draws) : draws[k].height = prev_draws[k].height)
    /\ [][/\ cur_time_' >= cur_time_
          /\ cur_time_' # cur_time_ => RenderReturned
          /\ RenderReturned =>
                /\ cur_time_' = cur_time_ + dt
                /\ Len(draws) = 2 * NumTiles]_vars

\* C7 witness: a frame that follows a step with dt = 0 was rendered.
C7_Witness ==
    /\ RenderReturned
    /\ dts = << 0 >>
    /\ Len(draws) = 2 * NumTiles
    /\ Len(prev_draws) = 2 * NumTiles

\* The draw of hexagon slot (r, c) in the draw_grid call that issued draws[n].
HexagonDrawOf(n, r, c) ==
    draws[(IF n > NumTiles THEN NumTiles ELSE 0) + r * GridColumns + c + 1]

\* C8: the diamond just drawn at slot (r, c) sits at the mean of the
\* offsets of the hexagons drawn at (r,c), (r,c+1), (r+1,c), (r+1,c+1), each
\* of its four placed edges is an edge of one of those hexagons, the diamond
\* grid is 11 x 11 and the diamond of slot (5,5) is at (0, 0).
C8_DiamondCentred ==
    /\ (Len(draws) > 0 /\ draws[Len(draws)].geometry = "diamond_") =>
          LET n == Len(draws)
              d == draws[n]
              r == d.slot[1]
              c == d.slot[2]
              hs == { HexagonDrawOf(n, r, c), HexagonDrawOf(n, r, c + 1),
                      HexagonDrawOf(n, r + 1, c), HexagonDrawOf(n, r + 1, c + 1) }
          IN /\ Cardinality(hs) = 4
             /\ \A h \in hs : h.geometry = "hexagon_"
             /\ { h.slot : h \in hs } = { <<r, c>>, <<r, c + 1>>, <<r + 1, c>>,
                                          <<r + 1, c + 1>> }
             /\ 4 * d.offset[1] = Sum([ k \in 1..4 |->
                   (<< HexagonDrawOf(n, r, c), HexagonDrawOf(n, r, c + 1),
                       HexagonDrawOf(n, r + 1, c),
                       HexagonDrawOf(n, r + 1, c + 1) >>)[k].offset[1] ])
             /\ 4 * d.offset[2] = Sum([ k \in 1..4 |->
                   (<< HexagonDrawOf(n, r, c), HexagonDrawOf(n, r, c + 1),
                       HexagonDrawOf(n, r + 1, c),
                       HexagonDrawOf(n, r + 1, c + 1) >>)[k].offset[2] ])
             /\ \A e \in PlacedEdges(diamond_verts, d.offset) :
                   \E h \in hs : e \in PlacedEdges(hexagon_verts, h.offset)
             /\ d.slot = <<5, 5>> => d.offset = <<0, 0>>
    /\ RenderReturned =>
          { draws[k].slot : k \in (NumHexagons + 1)..NumTiles }
             = (0..10) \X (0..10)

\* C8 witness: the diamond of slot (5,5) has just been drawn.
C8_Witness ==
    /\ Len(draws) > 0
    /\ draws[Len(draws)].geometry = "diamond_"
    /\ draws[Len(draws)].slot = <<5, 5>>
    /\ draws[Len(draws)].offset = <<0, 0>>

\* C9: the height of every tile drawn lies in [0, 5.0] (0..10000 over 2000).
C9_HeightRange ==
    \A k \in 1..Len(draws) : 0 <= draws[k].height /\ draws[k].height <= 10000

\* C9 witness: a tile was drawn with height 0, the lower end of the range.
C9_Witness ==
    /\ Len(draws) = 1
    /\ draws[1].height = 0

\* C10: GL_DEPTH_TEST is enabled at every shadow-pass draw of every frame.
C10_DepthTestInShadowPass ==
    Len(draws) > 0 =>
        (draws[Len(draws)].call = "shadow" => draws[Len(draws)].depth_test)

====
